---------------------------- MODULE Spec2Model ----------------------------
(***************************************************************************)
(* Notes application with webhook notification.                            *)
(*                                                                         *)
(* Three tRPC routers (note, webhookInfo, webhookEvent) work on three      *)
(* Prisma tables (note, webhookInfo, webhookEvent); after its storage step *)
(* every note procedure awaits updateHost, which looks the caller's        *)
(* webhook configuration up and, when the event is enabled, awaits         *)
(* WebhookService.updateWebhook (one fetch POST).                          *)
(*                                                                         *)
(* Every await on the Record Store or on the network is a point where      *)
(* other requests may run, so a procedure is a sequence of atomic steps:   *)
(*   note procedures:  storage step -> UpdateHost -> FetchSettle           *)
(*   setEvent:         findUnique   -> SetEventUpsert                      *)
(*   the other three:  one step.                                           *)
(* Strings that the code transforms (note bodies, note ids) are sequences  *)
(* of one-character strings, so that trim() is computed, not assumed.      *)
(***************************************************************************)
EXTENDS Naturals, Sequences, FiniteSets, TLC

VARIABLES
    note,          \* table Note: set of rows [ID, title, data]
    webhookInfo,   \* table WebhookInfo: set of rows [ID, userID, hostURL]
    webhookEvent,  \* table WebhookEvent: set of rows [webhookInfoID, event, enabled]
    noteSeq,       \* number of Note rows created so far (feeds the generated ids)
    posts,         \* every fetch() issued so far, in the order issued
    call,          \* per request slot: the request in progress, if any
    response,      \* the request that returned last, with what it returned
    nops,          \* requests received so far; also the logical clock of Date.now()
    lastURL,       \* history: per user, the hostURL written by the last upsert
    lastSet        \* history: per user and event, the flag written by the last upsert

vars == <<note, webhookInfo, webhookEvent, noteSeq, posts, call, response, nops,
         lastURL, lastSet>>

db == <<note, webhookInfo, webhookEvent, noteSeq, lastURL, lastSet>>

----------------------------------------------------------------------------
(* Bounds and input domains *)

MaxOps == 2

\* requests in progress at the same time
Procs == {1, 2}

Users == {"u1", "u2"}

NoSession == "anonymous"

Sessions == Users \cup {NoSession}

EventType == {"NOTE_CREATE", "NOTE_READ", "NOTE_UPDATE", "NOTE_DELETE"}

NoteOps == {"addNote", "updateNote", "findAllNotes", "deleteNote"}

ConfigOps == {"setWebhookURL", "findWebhookInto", "setEvent", "getEvents"}

\* note bodies as typed by a client into addNote: blank, and one character
\* with padding
AddBodies == { <<" ">>, <<" ", "a">> }

\* note bodies as typed by a client into updateNote: blank, one character
\* with padding, and two bodies of two characters of which one is padded
UpdateBodies == { <<" ">>, <<" ", "a">>, <<"a", "b">>, <<"b", "a", " ">> }

Digits == <<"1", "2", "3", "4", "5", "6", "7", "8", "9">>

NoteID(k) == <<"n", Digits[k]>>

\* ids as sent by a client: the first note's id padded, and the second's
IdInputs == { <<" ", "n", "1">>, <<"n", "2">> }

UrlInputs == {"https://a.example", "https://b.example/hook", "example.com"}

Outcomes == {"ok", "http_error", "network_error"}

----------------------------------------------------------------------------
(* Values and results *)

Null == [t |-> "null"]

NoteV(n) == [t |-> "note", v |-> n]

NotesV(ns) == [t |-> "notes", v |-> ns]

BoolV(b) == [t |-> "bool", v |-> b]

InfoV(r) == [t |-> "info", v |-> r]

EventV(r) == [t |-> "event", v |-> r]

EventsV(rs) == [t |-> "events", v |-> rs]

Ok(v) == [ok |-> TRUE, value |-> v]

Err(e) == [ok |-> FALSE, error |-> e]

Pending == [ok |-> FALSE, error |-> "pending"]

UNAUTHORIZED == "UNAUTHORIZED"

BAD_INPUT == "BAD_REQUEST: input validation"

NOT_CONFIGURED == "BAD_REQUEST: Webhook host not configured"

RECORD_NOT_FOUND == "P2025: record not found"

TYPE_ERROR == "TypeError"

NotParsed == <<"<unparsed>">>


----------------------------------------------------------------------------
(* zod input schemas and the WHATWG URL parser *)

RECURSIVE trimStart(_)
trimStart(s) == IF s # <<>> /\ Head(s) = " " THEN trimStart(Tail(s)) ELSE s

RECURSIVE trimEnd(_)
trimEnd(s) ==
    IF s # <<>> /\ s[Len(s)] = " " THEN trimEnd(SubSeq(s, 1, Len(s) - 1)) ELSE s

\* String.prototype.trim, as z.string().trim() applies it
trim(s) == trimEnd(trimStart(s))

\* new URL(s) succeeds: s is an absolute URL (also what z.string().url() tests)
CanParseURL(s) == s \in {"https://a.example", "https://b.example/hook"}

\* new URL(s).toString(): the serialised href (an empty path becomes "/")
URL_toString(s) ==
    CASE s = "https://a.example" -> "https://a.example/"
      [] OTHER -> s

\* a variant that stores the body as it was typed
addNoteInput_untrimmedData(raw) == [success |-> Len(trim(raw)) >= 1, data |-> raw]

\* z.string().trim().min(1)
addNoteInput(raw) ==
    LET v == trim(raw) IN [success |-> Len(v) >= 1, data |-> v]

\* a plausible slip: the length test applied to the untrimmed string
updateNoteInput_untrimmed(raw) ==
    [success |-> Len(raw.data) >= 2,
     data |-> [ID |-> trim(raw.ID), data |-> trim(raw.data)]]

\* z.object({ ID: z.string().trim(), data: z.string().trim().min(2) })
updateNoteInput(raw) ==
    LET id == trim(raw.ID)
        v  == trim(raw.data)
    IN [success |-> Len(v) >= 2, data |-> [ID |-> id, data |-> v]]

\* z.string().trim().min(1)
deleteNoteInput(raw) ==
    LET v == trim(raw) IN [success |-> Len(v) >= 1, data |-> v]

\* a variant that accepts any string
setWebhookURLInput_any(raw) == [success |-> TRUE, data |-> raw]

\* z.string().url()
setWebhookURLInput(raw) == [success |-> CanParseURL(raw), data |-> raw]

\* a variant that lets every request through
protectedProcedure_open(session) == TRUE

\* protectedProcedure: the middleware that rejects a request without a session
protectedProcedure(session) == session # NoSession

\* the event each note procedure passes to updateHost
EventOf(op) ==
    CASE op = "addNote" -> "NOTE_CREATE"
      [] op = "updateNote" -> "NOTE_UPDATE"
      [] op = "findAllNotes" -> "NOTE_READ"
      [] op = "deleteNote" -> "NOTE_DELETE"

----------------------------------------------------------------------------
(* Record Store operations (Prisma client calls) *)

\* db.note.create({ data: { data, title: "Some title", updatedOn } }).  The
\* timestamps of a row are written here and never read by any procedure;
\* they are left out of the row.
note_create(id, data) == [ID |-> id, title |-> "Some title", data |-> data]

\* a variant without the where clause: every row is written
note_update_all(tbl, id, data) == {[n EXCEPT !.data = data] : n \in tbl}

\* a variant whose write is lost
note_update_lost(tbl, id, data) == tbl

\* db.note.update({ where: { ID }, data: { data } }): the table afterwards
note_update(tbl, id, data) ==
    {IF n.ID = id THEN [n EXCEPT !.data = data] ELSE n : n \in tbl}

\* a variant without the where clause
note_find_any(tbl, id) == tbl

\* the row an update or delete addresses (ID is the primary key)
note_find(tbl, id) == {n \in tbl : n.ID = id}

\* a variant that returns one row only
note_findMany_first(tbl) == IF tbl = {} THEN {} ELSE {CHOOSE n \in tbl : TRUE}

\* db.note.findMany(): every row (the order of the result is not modelled)
note_findMany(tbl) == tbl

\* a variant that leaves the row in the table
note_delete_kept(tbl, id) == tbl

\* db.note.delete({ where: { ID } }): the table afterwards
note_delete(tbl, id) == {n \in tbl : n.ID # id}

\* a variant that inserts a new row on every call
webhookInfo_upsert_insert(tbl, userID, url) ==
    tbl \cup {[ID |-> Cardinality(tbl) + 1, userID |-> userID, hostURL |-> url]}

\* a variant that replaces the row by a new one
webhookInfo_upsert_recreate(tbl, userID, url) ==
    {r \in tbl : r.userID # userID}
       \cup {[ID |-> Cardinality(tbl) + 1, userID |-> userID, hostURL |-> url]}

\* db.webhookInfo.upsert({ where: { userID }, update: { hostURL }, create })
webhookInfo_upsert(tbl, userID, url) ==
    IF \E r \in tbl : r.userID = userID
    THEN {IF r.userID = userID THEN [r EXCEPT !.hostURL = url] ELSE r : r \in tbl}
    ELSE tbl \cup {[ID |-> Cardinality(tbl) + 1, userID |-> userID, hostURL |-> url]}

\* a variant that forgets the where clause
webhookInfo_find_all(tbl, userID) == tbl

\* db.webhookInfo.findUnique / findFirst({ where: { userID } }): the rows
\* that match; the caller takes one of them, or null when there is none
webhookInfo_find(tbl, userID) == {r \in tbl : r.userID = userID}

\* a variant that returns the settings of every configuration
webhookEvents_of_all(tbl, infoID) == tbl

\* include: { webhookEvents: true }
webhookEvents_of(tbl, infoID) == {e \in tbl : e.webhookInfoID = infoID}

\* a variant that inserts a new row on every call
webhookEvent_upsert_insert(tbl, infoID, event, enabled) ==
    tbl \cup {[webhookInfoID |-> infoID, event |-> event, enabled |-> enabled]}

\* db.webhookEvent.upsert({ where: { webhookInfoID_event }, update, create })
webhookEvent_upsert(tbl, infoID, event, enabled) ==
    IF \E e \in tbl : e.webhookInfoID = infoID /\ e.event = event
    THEN {IF e.webhookInfoID = infoID /\ e.event = event
          THEN [e EXCEPT !.enabled = enabled] ELSE e : e \in tbl}
    ELSE tbl \cup {[webhookInfoID |-> infoID, event |-> event, enabled |-> enabled]}

----------------------------------------------------------------------------
(* Event notifier *)

\* a variant of the loop's test that forgets the enabled flag
updateHost_match_anyFlag(eventInfo, type) == eventInfo.event = type

\* the test of updateHost's loop: eventInfo.event === type && eventInfo.enabled
updateHost_match(eventInfo, type) ==
    eventInfo.event = type /\ eventInfo.enabled

\* updateHost's loop over webhookInfo.webhookEvents: TRUE when it reaches an
\* entry that makes it call WebhookService.updateWebhook
RECURSIVE updateHost_scan(_, _)
updateHost_scan(events, type) ==
    IF events = {} THEN FALSE
    ELSE LET eventInfo == CHOOSE e \in events : TRUE
         IN IF updateHost_match(eventInfo, type) THEN TRUE
            ELSE updateHost_scan(events \ {eventInfo}, type)

\* a variant that resends after a failed fetch
updateWebhook_next_retry(outcome) ==
    IF outcome = "ok" THEN "return" ELSE "refetch"

\* a variant without the catch: a network error escapes
updateWebhook_next_uncaught(outcome) ==
    IF outcome = "network_error" THEN "throw" ELSE "return"

\* WebhookService.updateWebhook once its fetch has settled: a response that
\* is not ok and a rejected fetch are logged, and the method returns
updateWebhook_next(outcome) == "return"

\* a variant whose body lacks the timestamp
updateWebhook_request_noTimestamp(url, type, data, now) ==
    [url |-> URL_toString(url), method |-> "POST",
     contentType |-> "application/json",
     body |-> [type |-> type, data |-> data]]

\* the request WebhookService.updateWebhook hands to fetch
updateWebhook_request(url, type, data, now) ==
    [url |-> URL_toString(url), method |-> "POST",
     contentType |-> "application/json",
     body |-> [type |-> type, timestamp |-> now, data |-> data]]

----------------------------------------------------------------------------
(* Initial states: a fresh database, or a database already in use in which *)
(* user u1 has a configuration with every event enabled but NOTE_CREATE,   *)
(* which was switched off again, and one note is stored (the state after   *)
(* setWebhookURL, five setEvent and one addNote)                           *)

IdleCall ==
    [pc |-> "idle", opno |-> 0, user |-> NoSession, op |-> "none",
     input |-> NotParsed, data |-> Null, result |-> Pending, dbCalls |-> 0,
     lookup |-> "none", outcome |-> "none", hist |-> Null, atStore |-> Null]

InitFresh ==
    /\ note = {}
    /\ webhookInfo = {}
    /\ webhookEvent = {}
    /\ noteSeq = 0
    /\ lastURL = [u \in Users |-> "none"]
    /\ lastSet = [u \in Users |-> [k \in EventType |-> "unset"]]

InitInUse ==
    /\ note = {note_create(NoteID(1), <<"a", "b">>)}
    /\ webhookInfo = {[ID |-> 1, userID |-> "u1", hostURL |-> "https://a.example"]}
    /\ webhookEvent =
         {[webhookInfoID |-> 1, event |-> k, enabled |-> (k # "NOTE_CREATE")] :
             k \in EventType}
    /\ noteSeq = 1
    /\ lastURL = [u \in Users |-> IF u = "u1" THEN "https://a.example" ELSE "none"]
    /\ lastSet = [u \in Users |->
                    [k \in EventType |->
                        IF u # "u1" THEN "unset"
                        ELSE IF k = "NOTE_CREATE" THEN "off" ELSE "on"]]

Init ==
    /\ InitFresh \/ InitInUse
    /\ posts = <<>>
    /\ call = [p \in Procs |-> IdleCall]
    /\ response = IdleCall
    /\ nops = 0

----------------------------------------------------------------------------
(* Helpers of the actions *)

\* a new request takes the lowest free slot (slots only name the requests
\* in progress, so which free one it takes makes no difference)
CanBegin(p) ==
    /\ call[p].pc = "idle"
    /\ \A q \in Procs : q < p => call[q].pc # "idle"
    /\ nops < MaxOps

\* the procedure returns (a value or an error) and its slot is free again
Return(p, c) ==
    /\ call' = [call EXCEPT ![p] = IdleCall]
    /\ response' = [c EXCEPT !.pc = "returned"]

\* the procedure goes on to its next await
Continue(p, c) ==
    /\ call' = [call EXCEPT ![p] = c]
    /\ UNCHANGED response

\* the request as the procedure sees it; the input is parsed only once the
\* session check has passed
NewCall(session, op, raw) ==
    [IdleCall EXCEPT !.opno = nops + 1, !.user = session, !.op = op,
                     !.input = IF protectedProcedure(session) THEN raw ELSE NotParsed]

\* the procedure throws before its handler touches anything
Rejected(p, session, op, raw, error) ==
    /\ Return(p, [NewCall(session, op, raw) EXCEPT !.result = Err(error)])
    /\ UNCHANGED <<db, posts>>

\* Date.now(): a logical clock, the number of requests received so far
Now == nops

\* what a note procedure returns once updateHost has returned
ReturnValue(c) ==
    CASE c.op = "addNote" -> c.data
      [] c.op = "findAllNotes" -> c.data
      [] c.op = "updateNote" -> BoolV(c.data.t = "note")
      [] c.op = "deleteNote" -> BoolV(c.data.t = "note")

\* history: the user has a configuration with an enabled setting for the event
EnabledFor(u, type) ==
    \E c \in webhookInfo : \E e \in webhookEvent :
        /\ c.userID = u
        /\ e.webhookInfoID = c.ID
        /\ e.event = type
        /\ e.enabled

\* history: what the configuration of the user says about the event while
\* the storage step of a note procedure runs
ConfigAt(u, type) ==
    [t |-> "config", enabled |-> EnabledFor(u, type),
     hostURL |-> {c.hostURL : c \in webhookInfo_find(webhookInfo, u)}]

----------------------------------------------------------------------------
(* Note procedures: the storage step *)

AddNote(p, session, raw) ==
    /\ CanBegin(p)
    /\ nops' = nops + 1
    /\ IF ~protectedProcedure(session)
       THEN Rejected(p, session, "addNote", raw, UNAUTHORIZED)
       ELSE LET parsed == addNoteInput(raw) IN
            IF ~parsed.success
            THEN Rejected(p, session, "addNote", raw, BAD_INPUT)
            ELSE LET n == note_create(NoteID(noteSeq + 1), parsed.data) IN
                 /\ note' = note \cup {n}
                 /\ noteSeq' = noteSeq + 1
                 /\ Continue(p, [NewCall(session, "addNote", raw) EXCEPT
                          !.pc = "stored", !.data = NoteV(n), !.dbCalls = 1,
                          !.atStore = ConfigAt(session, EventOf("addNote"))])
                 /\ UNCHANGED <<webhookInfo, webhookEvent, lastURL, lastSet, posts>>

UpdateNote(p, session, raw) ==
    /\ CanBegin(p)
    /\ nops' = nops + 1
    /\ IF ~protectedProcedure(session)
       THEN Rejected(p, session, "updateNote", raw, UNAUTHORIZED)
       ELSE LET parsed == updateNoteInput(raw) IN
            IF ~parsed.success
            THEN Rejected(p, session, "updateNote", raw, BAD_INPUT)
            ELSE IF note_find(note, parsed.data.ID) = {}
            THEN \* db.note.update throws: no row to update
                 /\ Return(p, [NewCall(session, "updateNote", raw) EXCEPT
                          !.result = Err(RECORD_NOT_FOUND), !.dbCalls = 1])
                 /\ UNCHANGED <<db, posts>>
            ELSE LET tbl == note_update(note, parsed.data.ID, parsed.data.data)
                     n == CHOOSE r \in note_find(tbl, parsed.data.ID) : TRUE
                 IN /\ note' = tbl
                    /\ Continue(p, [NewCall(session, "updateNote", raw) EXCEPT
                             !.pc = "stored", !.data = NoteV(n), !.dbCalls = 1,
                          !.atStore = ConfigAt(session, EventOf("updateNote"))])
                    /\ UNCHANGED <<webhookInfo, webhookEvent, noteSeq,
                                   lastURL, lastSet, posts>>

FindAllNotes(p, session) ==
    /\ CanBegin(p)
    /\ nops' = nops + 1
    /\ IF ~protectedProcedure(session)
       THEN Rejected(p, session, "findAllNotes", Null, UNAUTHORIZED)
       ELSE /\ Continue(p, [NewCall(session, "findAllNotes", Null) EXCEPT
                     !.pc = "stored", !.data = NotesV(note_findMany(note)),
                     !.dbCalls = 1,
                     !.atStore = ConfigAt(session, EventOf("findAllNotes"))])
            /\ UNCHANGED <<db, posts>>

DeleteNote(p, session, raw) ==
    /\ CanBegin(p)
    /\ nops' = nops + 1
    /\ IF ~protectedProcedure(session)
       THEN Rejected(p, session, "deleteNote", raw, UNAUTHORIZED)
       ELSE LET parsed == deleteNoteInput(raw) IN
            IF ~parsed.success
            THEN Rejected(p, session, "deleteNote", raw, BAD_INPUT)
            ELSE IF note_find(note, parsed.data) = {}
            THEN \* db.note.delete throws: no row to delete
                 /\ Return(p, [NewCall(session, "deleteNote", raw) EXCEPT
                          !.result = Err(RECORD_NOT_FOUND), !.dbCalls = 1])
                 /\ UNCHANGED <<db, posts>>
            ELSE LET n == CHOOSE r \in note_find(note, parsed.data) : TRUE IN
                 /\ note' = note_delete(note, parsed.data)
                 /\ Continue(p, [NewCall(session, "deleteNote", raw) EXCEPT
                          !.pc = "stored", !.data = NoteV(n), !.dbCalls = 1,
                          !.atStore = ConfigAt(session, EventOf("deleteNote"))])
                 /\ UNCHANGED <<webhookInfo, webhookEvent, noteSeq,
                                lastURL, lastSet, posts>>

----------------------------------------------------------------------------
(* Event notifier: the configuration lookup, and the fetch *)

\* updateHost returns without a fetch, and the procedure returns
Finish(p, lookup, calls) ==
    Return(p, [call[p] EXCEPT !.result = Ok(ReturnValue(call[p])),
                              !.lookup = lookup,
                              !.dbCalls = call[p].dbCalls + calls])

\* updateHost up to the call of fetch: findFirst, the loop, new URL(url)
UpdateHost(p) ==
    /\ call[p].pc = "stored"
    /\ UNCHANGED <<db, nops>>
    /\ LET c == call[p]
           type == EventOf(c.op)
           found == webhookInfo_find(webhookInfo, c.user)
           lookup == IF EnabledFor(c.user, type) THEN "enabled" ELSE "disabled"
       IN IF c.user = NoSession
          THEN Finish(p, lookup, 0) /\ UNCHANGED posts
          ELSE IF found = {}
          THEN Finish(p, lookup, 1) /\ UNCHANGED posts
          ELSE \E info \in found :
               IF ~updateHost_scan(webhookEvents_of(webhookEvent, info.ID), type)
               THEN Finish(p, lookup, 1) /\ UNCHANGED posts
               ELSE IF ~CanParseURL(info.hostURL)
               THEN \* new URL(url) throws outside the try block
                    /\ Return(p, [c EXCEPT !.result = Err(TYPE_ERROR),
                                           !.lookup = lookup,
                                           !.dbCalls = c.dbCalls + 1])
                    /\ UNCHANGED posts
               ELSE /\ posts' = Append(posts,
                          [opno |-> c.opno,
                           request |-> updateWebhook_request(info.hostURL, type,
                                                             c.data, Now)])
                    /\ Continue(p, [c EXCEPT !.pc = "fetching",
                                             !.lookup = lookup,
                                             !.dbCalls = c.dbCalls + 1])

\* the awaited fetch settles: a response that is ok, a response that is not,
\* or a rejection; updateWebhook, updateHost and the procedure then return
FetchSettle(p, outcome) ==
    /\ call[p].pc = "fetching"
    /\ UNCHANGED <<db, nops>>
    /\ LET c == call[p]
           next == updateWebhook_next(outcome)
       IN CASE next = "return" ->
                 /\ Return(p, [c EXCEPT !.result = Ok(ReturnValue(c)),
                                        !.outcome = outcome])
                 /\ UNCHANGED posts
            [] next = "throw" ->
                 /\ Return(p, [c EXCEPT !.result = Err("fetch failed"),
                                        !.outcome = outcome])
                 /\ UNCHANGED posts
            [] next = "refetch" ->
                 /\ Continue(p, [c EXCEPT !.outcome = outcome])
                 /\ posts' = Append(posts,
                       CHOOSE e \in {posts[i] : i \in DOMAIN posts} :
                           e.opno = c.opno)

----------------------------------------------------------------------------
(* Webhook configuration procedures *)

SetWebhookURL(p, session, raw) ==
    /\ CanBegin(p)
    /\ nops' = nops + 1
    /\ IF ~protectedProcedure(session)
       THEN Rejected(p, session, "setWebhookURL", raw, UNAUTHORIZED)
       ELSE IF session = NoSession
       THEN Rejected(p, session, "setWebhookURL", raw, TYPE_ERROR)
       ELSE LET parsed == setWebhookURLInput(raw) IN
            IF ~parsed.success
            THEN Rejected(p, session, "setWebhookURL", raw, BAD_INPUT)
            ELSE LET tbl == webhookInfo_upsert(webhookInfo, session, parsed.data) IN
                 /\ webhookInfo' = tbl
                 /\ lastURL' = [lastURL EXCEPT ![session] = parsed.data]
                 /\ \E r \in {x \in webhookInfo_find(tbl, session) :
                                 x.hostURL = parsed.data} :
                      Return(p, [NewCall(session, "setWebhookURL", raw) EXCEPT
                           !.dbCalls = 1,
                           !.result = Ok(InfoV([info |-> r, webhookEvents |->
                                         webhookEvents_of(webhookEvent, r.ID)]))])
                 /\ UNCHANGED <<note, webhookEvent, noteSeq, lastSet, posts>>

FindWebhookInto(p, session) ==
    /\ CanBegin(p)
    /\ nops' = nops + 1
    /\ UNCHANGED <<db, posts>>
    /\ IF ~protectedProcedure(session)
       THEN Rejected(p, session, "findWebhookInto", Null, UNAUTHORIZED)
       ELSE IF session = NoSession
       THEN Rejected(p, session, "findWebhookInto", Null, TYPE_ERROR)
       ELSE LET found == webhookInfo_find(webhookInfo, session) IN
            \E v \in IF found = {} THEN {Null} ELSE {InfoV(r) : r \in found} :
               Return(p, [NewCall(session, "findWebhookInto", Null) EXCEPT
                     !.dbCalls = 1, !.result = Ok(v)])

\* setEvent up to its first await: findUnique, and the throw when it is null
SetEvent(p, session, raw) ==
    /\ CanBegin(p)
    /\ nops' = nops + 1
    /\ UNCHANGED <<db, posts>>
    /\ IF ~protectedProcedure(session)
       THEN Rejected(p, session, "setEvent", raw, UNAUTHORIZED)
       ELSE IF session = NoSession
       THEN Rejected(p, session, "setEvent", raw, TYPE_ERROR)
       ELSE LET found == webhookInfo_find(webhookInfo, session) IN
            IF found = {}
            THEN Return(p, [NewCall(session, "setEvent", raw) EXCEPT
                       !.dbCalls = 1, !.result = Err(NOT_CONFIGURED)])
            ELSE \E info \in found :
                 Continue(p, [NewCall(session, "setEvent", raw) EXCEPT
                       !.pc = "found", !.dbCalls = 1,
                       !.data = InfoV([ID |-> info.ID])])

\* setEvent from the upsert to its return
SetEventUpsert(p) ==
    /\ call[p].pc = "found"
    /\ LET c == call[p]
           tbl == webhookEvent_upsert(webhookEvent, c.data.v.ID,
                                      c.input.event, c.input.enabled)
       IN /\ webhookEvent' = tbl
          /\ lastSet' = [lastSet EXCEPT ![c.user][c.input.event] =
                            IF c.input.enabled THEN "on" ELSE "off"]
          /\ \E row \in {e \in tbl : /\ e.webhookInfoID = c.data.v.ID
                                     /\ e.event = c.input.event
                                     /\ e.enabled = c.input.enabled} :
               Return(p, [c EXCEPT !.dbCalls = c.dbCalls + 1,
                                   !.result = Ok(EventV(row))])
    /\ UNCHANGED <<note, webhookInfo, noteSeq, lastURL, posts, nops>>

GetEvents(p, session) ==
    /\ CanBegin(p)
    /\ nops' = nops + 1
    /\ UNCHANGED <<db, posts>>
    /\ IF ~protectedProcedure(session)
       THEN Rejected(p, session, "getEvents", Null, UNAUTHORIZED)
       ELSE IF session = NoSession
       THEN Rejected(p, session, "getEvents", Null, TYPE_ERROR)
       ELSE LET found == webhookInfo_find(webhookInfo, session) IN
            \E rows \in IF found = {} THEN {{}}
                        ELSE {webhookEvents_of(webhookEvent, r.ID) : r \in found} :
               Return(p, [NewCall(session, "getEvents", Null) EXCEPT
                     !.dbCalls = 1,
                     !.result = Ok(EventsV(rows)),
                     !.hist = [t |-> "lastSet", v |-> lastSet[session]]])

----------------------------------------------------------------------------
(* Specifications *)

Next ==
    \/ \E p \in Procs, s \in Sessions, raw \in AddBodies : AddNote(p, s, raw)
    \/ \E p \in Procs, s \in Sessions, id \in IdInputs, body \in UpdateBodies :
          UpdateNote(p, s, [ID |-> id, data |-> body])
    \/ \E p \in Procs, s \in Sessions : FindAllNotes(p, s)
    \/ \E p \in Procs, s \in Sessions, id \in IdInputs : DeleteNote(p, s, id)
    \/ \E p \in Procs : UpdateHost(p)
    \/ \E p \in Procs, outcome \in Outcomes : FetchSettle(p, outcome)
    \/ \E p \in Procs, s \in Sessions, url \in UrlInputs : SetWebhookURL(p, s, url)
    \/ \E p \in Procs, s \in Sessions : FindWebhookInto(p, s)
    \/ \E p \in Procs, s \in Sessions, k \in EventType, b \in BOOLEAN :
          SetEvent(p, s, [event |-> k, enabled |-> b])
    \/ \E p \in Procs : SetEventUpsert(p)
    \/ \E p \in Procs, s \in Sessions : GetEvents(p, s)

Spec == Init /\ [][Next]_vars

\* The server runs every continuation whose awaited Record Store call has
\* resolved; nothing obliges the remote endpoint to answer a fetch, and
\* nothing obliges a client to send a request.
Fairness ==
    \A p \in Procs : WF_vars(UpdateHost(p)) /\ WF_vars(SetEventUpsert(p))

FairSpec == Spec /\ Fairness

----------------------------------------------------------------------------
(* Vocabulary of the properties *)

\* the requests in progress, and the one that returned last
InFlight == {call[p] : p \in Procs} \ {IdleCall}

Requests == InFlight \cup ({response} \ {IdleCall})

\* the POSTs issued on behalf of request number n
PostsOf(n) == {i \in DOMAIN posts : posts[i].opno = n}

\* the storage step of a note procedure has succeeded
Stored(c) == c.op \in NoteOps /\ c.data # Null

\* what the caller of a note procedure is owed once its storage step has
\* succeeded: the created note, the list read, or the success indicator
StorageResult(c) ==
    IF c.op \in {"addNote", "findAllNotes"} THEN Ok(c.data) ELSE Ok(BoolV(TRUE))

FailedOutcomes == {"http_error", "network_error"}

\* the user's configuration rows, and the settings of a configuration
ConfigsOf(u) == {c \in webhookInfo : c.userID = u}

SettingsOf(id, k) == {e \in webhookEvent : e.webhookInfoID = id /\ e.event = k}

\* a step in which a request is received, and that request after the step
Began == nops' = nops + 1

NewRequest ==
    IF \E p \in Procs : call'[p].opno = nops'
    THEN call'[CHOOSE p \in Procs : call'[p].opno = nops']
    ELSE response'

----------------------------------------------------------------------------
(* C1: once the notifier of a note procedure whose storage step succeeded  *)
(* has done its lookup, exactly one POST has been issued for the request   *)
(* if the user then had a configuration with an enabled setting for the    *)
(* procedure's event, and none otherwise, in which case the procedure has  *)
(* returned its storage result; no note procedure whose storage step       *)
(* succeeded returns without that lookup.                                  *)
C1_PostIffEnabledAtLookup ==
    \A c \in Requests :
        Stored(c) =>
          /\ c.pc = "stored" => c.lookup = "none" /\ PostsOf(c.opno) = {}
          /\ c.pc # "stored" => c.lookup \in {"enabled", "disabled"}
          /\ c.lookup = "enabled" => Cardinality(PostsOf(c.opno)) = 1
          /\ c.lookup = "disabled" =>
                /\ PostsOf(c.opno) = {}
                /\ c.pc = "returned"
                /\ c.result = StorageResult(c)

\* a note was created while NOTE_CREATE was enabled and one POST went out
C1_Witness ==
    /\ response.op = "addNote"
    /\ response.lookup = "enabled"
    /\ Cardinality(PostsOf(response.opno)) = 1

(* C2: when the fetch of a note procedure settles, whatever its outcome,   *)
(* the procedure returns its storage result as a success and the Note      *)
(* table is left as it is.                                                 *)
C2_NotificationFailureIsolated ==
    [][\A p \in Procs :
          call[p].pc = "fetching" /\ call'[p].pc # "fetching" =>
             /\ response'.opno = call[p].opno
             /\ response'.pc = "returned"
             /\ response'.result = StorageResult(call[p])
             /\ note' = note]_vars

\* a note procedure has returned a success after its POST failed
C2_Witness ==
    /\ response.op \in NoteOps
    /\ response.outcome \in FailedOutcomes
    /\ response.result.ok

(* C3: every note procedure whose storage step has completed eventually    *)
(* returns, also when the remote endpoint never answers the POST.          *)
C3_ResponseNotBlockedByPost ==
    \A p \in Procs :
        (call[p].pc \in {"stored", "fetching"}) ~> (call[p].pc = "idle")

(* C4: no request ever has more than one POST issued on its behalf,        *)
(* whatever the outcome of the POST.                                       *)
C4_AtMostOnePost ==
    \A n \in 1..nops : Cardinality(PostsOf(n)) <= 1

\* a procedure has returned after its POST failed, with one POST issued
C4_Witness ==
    /\ response.outcome \in FailedOutcomes
    /\ Cardinality(PostsOf(response.opno)) = 1

(* C5: every step that issues a POST issues exactly one, for a note        *)
(* procedure that is at its lookup; it goes to the serialised URL of a     *)
(* configuration the acting user has at that moment, and its body has      *)
(* exactly the fields type, timestamp and data, with type the event of the *)
(* procedure and data the value its storage step produced.                 *)
C5_PostShape ==
    [][posts' # posts =>
         /\ Len(posts') = Len(posts) + 1
         /\ SubSeq(posts', 1, Len(posts)) = posts
         /\ LET e == posts'[Len(posts')] IN
            \E p \in Procs :
               /\ call[p].pc = "stored"
               /\ e.opno = call[p].opno
               /\ e.request.method = "POST"
               /\ \E cfg \in ConfigsOf(call[p].user) :
                     e.request.url = URL_toString(cfg.hostURL)
               /\ DOMAIN e.request.body = {"type", "timestamp", "data"}
               /\ e.request.body.type = EventOf(call[p].op)
               /\ e.request.body.type \in EventType
               /\ e.request.body.data = call[p].data]_vars

\* a POST carrying a collection went to the serialised form of the stored URL
C5_Witness ==
    \E i \in DOMAIN posts :
        /\ posts[i].request.body.type = "NOTE_READ"
        /\ posts[i].request.body.data.t = "notes"
        /\ posts[i].request.url = "https://a.example/"
        /\ \E cfg \in webhookInfo : cfg.hostURL = "https://a.example"

(* C6: a request without a session is never in progress; it has returned   *)
(* UNAUTHORIZED with no Record Store call made and no POST issued.         *)
C6_UnauthenticatedRejected ==
    \A c \in Requests :
        c.user = NoSession =>
           /\ c.pc = "returned"
           /\ c.result = Err(UNAUTHORIZED)
           /\ c.dbCalls = 0
           /\ PostsOf(c.opno) = {}

\* an addNote without a session has been rejected
C6_Witness ==
    /\ response.op = "addNote"
    /\ response.user = NoSession
    /\ response.result = Err(UNAUTHORIZED)

(* C7: every WebhookEvent row refers to an existing WebhookInfo row, and a *)
(* setEvent received from a user who has no WebhookInfo row returns the    *)
(* error "Webhook host not configured" and leaves the table as it is.      *)
C7_NoOrphanSetting ==
    /\ [](\A e \in webhookEvent : \E c \in webhookInfo : c.ID = e.webhookInfoID)
    /\ [][Began /\ NewRequest.op = "setEvent" /\ NewRequest.user \in Users
             /\ ConfigsOf(NewRequest.user) = {} =>
                /\ NewRequest.pc = "returned"
                /\ NewRequest.result = Err(NOT_CONFIGURED)
                /\ webhookEvent' = webhookEvent]_vars

\* a setEvent of a user without configuration has failed, and that user
\* has no setting
C7_Witness ==
    /\ response.op = "setEvent"
    /\ response.result = Err(NOT_CONFIGURED)
    /\ ConfigsOf(response.user) = {}

(* C8: a user has no WebhookInfo row before the first setWebhookURL upsert *)
(* and exactly one after it, holding the URL of the last upsert.           *)
C8_OneConfigPerUser ==
    \A u \in Users :
        IF lastURL[u] = "none"
        THEN ConfigsOf(u) = {}
        ELSE /\ Cardinality(ConfigsOf(u)) = 1
             /\ \A c \in ConfigsOf(u) : c.hostURL = lastURL[u]

\* the URL of an existing configuration has been overwritten
C8_Witness ==
    /\ response.op = "setWebhookURL"
    /\ response.user = "u1"
    /\ lastURL["u1"] = "https://b.example/hook"
    /\ Cardinality(ConfigsOf("u1")) = 1

(* C9: there is at most one WebhookEvent row per (WebhookInfo, event), and *)
(* getEvents returns, for every event the user has set, one row holding    *)
(* the flag of the last setEvent upsert, and no row for the others.        *)
C9_OneSettingPerKind ==
    /\ \A c \in webhookInfo : \A k \in EventType :
           Cardinality(SettingsOf(c.ID, k)) <= 1
    /\ response.op = "getEvents" /\ response.user \in Users =>
         /\ response.result.ok
         /\ response.result.value.t = "events"
         /\ \A k \in EventType :
              LET rows == {e \in response.result.value.v : e.event = k}
                  last == response.hist.v[k]
              IN IF last = "unset" THEN rows = {}
                 ELSE /\ Cardinality(rows) = 1
                      /\ \A e \in rows : e.enabled = (last = "on")

\* getEvents has reported a flag that a setEvent switched off after it
\* had been on
C9_Witness ==
    /\ response.op = "getEvents"
    /\ response.user = "u1"
    /\ response.hist.v["NOTE_READ"] = "off"
    /\ \E e \in response.result.value.v :
          e.event = "NOTE_READ" /\ ~e.enabled

(* C10: an updateNote whose body has fewer than two characters after       *)
(* trimming returns the validation error in the step that receives it,     *)
(* which changes neither the Note table nor the POSTs; it makes no Record  *)
(* Store call and no POST is ever issued for it.                           *)
C10_ShortUpdateRejected ==
    /\ [](\A c \in Requests :
            c.op = "updateNote" /\ c.user \in Users
               /\ Len(trim(c.input.data)) < 2 =>
                  /\ c.pc = "returned"
                  /\ c.result = Err(BAD_INPUT)
                  /\ c.dbCalls = 0
                  /\ PostsOf(c.opno) = {})
    /\ [][Began /\ NewRequest.op = "updateNote" /\ NewRequest.user \in Users
             /\ Len(trim(NewRequest.input.data)) < 2 =>
                /\ note' = note
                /\ posts' = posts]_vars

\* an update of an existing note to a padded one-character body was rejected
C10_Witness ==
    /\ response.op = "updateNote"
    /\ response.user \in Users
    /\ response.input.data = <<" ", "a">>
    /\ response.result = Err(BAD_INPUT)
    /\ \E n \in note : n.ID = trim(response.input.ID)

----------------------------------------------------------------------------
(* Vocabulary of the contracts of the procedures *)

\* a step in which procedure op is called by a signed-in user
Received(op) == Began /\ NewRequest.op = op /\ NewRequest.user \in Users

\* the rows with a given identifier in the Note table before the step
NotesWithID(id) == {n \in note : n.ID = id}

Tables == <<note, webhookInfo, webhookEvent>>

DefaultTitle == "Some title"

(* C11: an addNote whose body is not empty after trimming adds one row to   *)
(* the Note table in the step that receives it: the row has the trimmed    *)
(* body, the default title and an identifier no row had before, and it is  *)
(* in the table a later read sees; the note the procedure returns is that  *)
(* row.                                                                    *)
C11_CreateStoresTrimmedNote ==
    /\ [](\A c \in Requests :
            c.op = "addNote" /\ c.pc = "returned" /\ c.result.ok =>
               /\ c.result.value.t = "note"
               /\ c.result.value = c.data
               /\ c.result.value.v.data = trim(c.input)
               /\ c.result.value.v.title = DefaultTitle)
    /\ [][Received("addNote") /\ Len(trim(NewRequest.input)) >= 1 =>
             /\ NewRequest.pc = "stored"
             /\ NewRequest.data.t = "note"
             /\ LET n == NewRequest.data.v
                IN /\ n.data = trim(NewRequest.input)
                   /\ n.title = DefaultTitle
                   /\ NotesWithID(n.ID) = {}
                   /\ note' = note \cup {n}]_vars

\* a note created from a padded body was returned and is in the table,
\* beside the note that was there before
C11_Witness ==
    /\ response.op = "addNote"
    /\ response.input = <<" ", "a">>
    /\ response.result.ok
    /\ response.result.value.v.data = <<"a">>
    /\ response.result.value.v \in note
    /\ Cardinality(note) = 2

(* C12: an addNote whose body is empty after trimming, and a setWebhookURL  *)
(* whose string does not parse as an absolute URL, return the validation   *)
(* error in the step that receives them; that step makes no Record Store   *)
(* call, leaves every table as it is and issues no POST.                    *)
C12_InvalidInputTouchesNothing ==
    [][\/ Received("addNote") /\ Len(trim(NewRequest.input)) = 0
       \/ Received("setWebhookURL") /\ ~CanParseURL(NewRequest.input)
       => /\ NewRequest.pc = "returned"
          /\ NewRequest.result = Err(BAD_INPUT)
          /\ NewRequest.dbCalls = 0
          /\ Tables' = Tables
          /\ posts' = posts]_vars

\* a setWebhookURL with a string that is no absolute URL was rejected and
\* the caller's configuration still has the URL it had
C12_Witness ==
    /\ response.op = "setWebhookURL"
    /\ response.input = "example.com"
    /\ response.result = Err(BAD_INPUT)
    /\ \E c \in ConfigsOf(response.user) : c.hostURL = "https://a.example"

(* C13: an updateNote with a valid body, or a deleteNote, whose trimmed     *)
(* identifier is the identifier of no row returns the record-not-found     *)
(* error of the Record Store in the step that receives it; that step       *)
(* leaves the Note table as it is and issues no POST, and the request,     *)
(* having returned, never reaches the notifier.                            *)
C13_UnknownIdNotFound ==
    [][\/ /\ Received("updateNote")
          /\ Len(trim(NewRequest.input.data)) >= 2
          /\ NotesWithID(trim(NewRequest.input.ID)) = {}
       \/ /\ Received("deleteNote")
          /\ Len(trim(NewRequest.input)) >= 1
          /\ NotesWithID(trim(NewRequest.input)) = {}
       => /\ NewRequest.pc = "returned"
          /\ NewRequest.result = Err(RECORD_NOT_FOUND)
          /\ NewRequest.lookup = "none"
          /\ note' = note
          /\ posts' = posts]_vars

\* a deleteNote of an identifier that no row has failed while another
\* note is stored
C13_Witness ==
    /\ response.op = "deleteNote"
    /\ response.input = <<"n", "2">>
    /\ response.result = Err(RECORD_NOT_FOUND)
    /\ PostsOf(response.opno) = {}
    /\ note # {}

(* C14: getEvents called by a signed-in user returns, in the step that      *)
(* receives it, a success whose value is the empty list when the user has  *)
(* no configuration and otherwise the settings that belong to the user's   *)
(* configuration, those and no others; the step leaves every table as it   *)
(* is and issues no POST.                                                  *)
C14_GetEventsReadsOwnSettings ==
    [][Received("getEvents") =>
          LET u == NewRequest.user
              own == {e \in webhookEvent :
                        \E c \in ConfigsOf(u) : e.webhookInfoID = c.ID}
          IN /\ NewRequest.pc = "returned"
             /\ NewRequest.result = Ok(EventsV(own))
             /\ ConfigsOf(u) = {} => NewRequest.result = Ok(EventsV({}))
             /\ Tables' = Tables
             /\ posts' = posts]_vars

\* a user without a configuration was answered with the empty list while
\* another user's settings are stored
C14_Witness ==
    /\ response.op = "getEvents"
    /\ response.user \in Users
    /\ ConfigsOf(response.user) = {}
    /\ response.result = Ok(EventsV({}))
    /\ webhookEvent # {}

(* C15: findAllNotes called by a signed-in user reads every row of the Note *)
(* table in the step that receives it and leaves every table as it is;     *)
(* the list it has read is the data of any POST issued for it, which has   *)
(* type NOTE_READ, and is the value it returns.                            *)
C15_FindAllReturnsAndNotifiesList ==
    /\ [](\A c \in Requests :
            c.op = "findAllNotes" /\ c.user \in Users =>
               /\ c.data.t = "notes"
               /\ \A i \in PostsOf(c.opno) :
                     /\ posts[i].request.body.type = "NOTE_READ"
                     /\ posts[i].request.body.data = c.data
               /\ c.lookup = "enabled" /\ c.pc \in {"fetching", "returned"} =>
                     PostsOf(c.opno) # {}
               /\ c.pc = "returned" => c.result = Ok(c.data))
    /\ [][Received("findAllNotes") =>
             /\ NewRequest.data = NotesV(note)
             /\ Tables' = Tables]_vars

\* a read of two notes was answered with both, and the POST issued for it
\* carries the same list
C15_Witness ==
    /\ response.op = "findAllNotes"
    /\ response.result.ok
    /\ response.result.value.t = "notes"
    /\ Cardinality(response.result.value.v) = 2
    /\ \E i \in PostsOf(response.opno) :
          posts[i].request.body.data = response.result.value

(* C16: a deleteNote whose trimmed identifier is the identifier of a row    *)
(* removes that row, and only that row, in the step that receives it, and  *)
(* keeps the row as it was immediately before the removal; no row has that *)
(* identifier afterwards (so that a later read does not see it and a later *)
(* deleteNote of it finds nothing), any POST issued for the request has    *)
(* type NOTE_DELETE and the removed row as data, and the request returns   *)
(* the boolean true.                                                       *)
C16_DeleteRemovesAndNotifiesLastState ==
    /\ [](\A c \in Requests :
            c.op = "deleteNote" /\ Stored(c) =>
               /\ \A n \in note : n.ID # c.data.v.ID
               /\ \A i \in PostsOf(c.opno) :
                     /\ posts[i].request.body.type = "NOTE_DELETE"
                     /\ posts[i].request.body.data = c.data
               /\ c.lookup = "enabled" /\ c.pc \in {"fetching", "returned"} =>
                     PostsOf(c.opno) # {}
               /\ c.pc = "returned" => c.result = Ok(BoolV(TRUE)))
    /\ [][/\ Received("deleteNote")
          /\ Len(trim(NewRequest.input)) >= 1
          /\ NotesWithID(trim(NewRequest.input)) # {}
          => /\ NewRequest.pc = "stored"
             /\ NewRequest.data.t = "note"
             /\ NotesWithID(trim(NewRequest.input)) = {NewRequest.data.v}
             /\ note' = note \ {NewRequest.data.v}]_vars

\* the note of the in-use database was deleted after an update had changed
\* its body: the caller got true, the table is empty and the POST carries
\* the row with the updated body
C16_Witness ==
    /\ response.op = "deleteNote"
    /\ response.result = Ok(BoolV(TRUE))
    /\ note = {}
    /\ \E i \in PostsOf(response.opno) :
          /\ posts[i].request.body.type = "NOTE_DELETE"
          /\ posts[i].request.body.data.v.data = <<"b", "a">>

(* C17: an updateNote with a valid body whose trimmed identifier is the     *)
(* identifier of a row replaces the body of that row by the trimmed body   *)
(* in the step that receives it and changes nothing else of the Note       *)
(* table (the row keeps its identifier and title, every other row is as it *)
(* was); any POST issued for the request has type NOTE_UPDATE and the row  *)
(* after the update as data; a successful return carries the boolean true  *)
(* and never the row.                                                      *)
C17_UpdateReplacesBodyOnly ==
    /\ [](\A c \in Requests :
            /\ c.op = "updateNote" /\ Stored(c) =>
                  /\ c.data.v.data = trim(c.input.data)
                  /\ \A i \in PostsOf(c.opno) :
                        /\ posts[i].request.body.type = "NOTE_UPDATE"
                        /\ posts[i].request.body.data = c.data
                  /\ c.lookup = "enabled" /\ c.pc \in {"fetching", "returned"} =>
                        PostsOf(c.opno) # {}
            /\ c.op = "updateNote" /\ c.pc = "returned" /\ c.result.ok =>
                  c.result.value = BoolV(TRUE))
    /\ [][/\ Received("updateNote")
          /\ Len(trim(NewRequest.input.data)) >= 2
          /\ NotesWithID(trim(NewRequest.input.ID)) # {}
          => \E n \in NotesWithID(trim(NewRequest.input.ID)) :
                LET after == [ID |-> n.ID, title |-> n.title,
                              data |-> trim(NewRequest.input.data)]
                IN /\ NewRequest.pc = "stored"
                   /\ NewRequest.data = NoteV(after)
                   /\ note' = (note \ {n}) \cup {after}]_vars

\* one of two notes was updated from a padded body: the caller got true,
\* the POST carries the row with the trimmed body, and the other note is
\* still in the table
C17_Witness ==
    /\ response.op = "updateNote"
    /\ response.user \in Users
    /\ response.input.data = <<"b", "a", " ">>
    /\ response.result = Ok(BoolV(TRUE))
    /\ Cardinality(note) = 2
    /\ \E i \in PostsOf(response.opno) :
          /\ posts[i].request.body.type = "NOTE_UPDATE"
          /\ posts[i].request.body.data.v.data = <<"b", "a">>
          /\ posts[i].request.body.data.v \in note

(* C18: the storage step of a note procedure and the lookup of its notifier *)
(* are two steps, and other requests run between them.  No POST is issued  *)
(* in the step that receives a request; in the step of the lookup a POST   *)
(* is issued exactly when the caller's configuration has an enabled        *)
(* setting of the event at that moment, and it goes to the URL the         *)
(* configuration has at that moment, whatever the configuration said while *)
(* the storage step ran.                                                   *)
C18_LookupTimeConfigurationDecides ==
    /\ [][Began => posts' = posts]_vars
    /\ [][\A p \in Procs :
            call[p].pc = "stored" /\ call'[p] # call[p] =>
               LET c == call[p]
                   atLookup == ConfigAt(c.user, EventOf(c.op))
               IN /\ posts' # posts <=> atLookup.enabled
                  /\ posts' # posts =>
                        /\ Len(posts') = Len(posts) + 1
                        /\ posts'[Len(posts')].opno = c.opno
                        /\ posts'[Len(posts')].request.url \in
                              {URL_toString(h) : h \in atLookup.hostURL}]_vars

\* a note was created while NOTE_CREATE was disabled for its author, a
\* setEvent of the author enabled it before the lookup, and the creation
\* was POSTed
C18_Witness ==
    \E p \in Procs :
       /\ call[p].op = "addNote"
       /\ call[p].pc = "fetching"
       /\ ~call[p].atStore.enabled
       /\ PostsOf(call[p].opno) # {}
       /\ response.op = "setEvent"
       /\ response.user = call[p].user
       /\ response.opno > call[p].opno

(* C19: the steps of a note procedure come in one order.  The storage step *)
(* is the step that receives the request: it issues no POST, a request     *)
(* whose row does not exist returns in it, and the data a request keeps    *)
(* from it is what the Record Store committed in it (the row written, the  *)
(* row removed, or the table read).  A POST is issued only in the step of  *)
(* the lookup, by a request whose storage step succeeded and which has not *)
(* returned, and it carries the data kept from the storage step.  A        *)
(* request returns its success only after the lookup, and after the POST   *)
(* when there is one; a request whose storage step failed has no POST.     *)
C19_StorageThenLookupThenPostThenResponse ==
    /\ [](\A c \in Requests :
            c.op \in NoteOps =>
               /\ c.pc = "stored" => Stored(c) /\ PostsOf(c.opno) = {}
               /\ c.pc = "fetching" =>
                     Stored(c) /\ c.lookup = "enabled" /\ PostsOf(c.opno) # {}
               /\ c.pc = "returned" /\ c.result.ok =>
                     /\ Stored(c)
                     /\ c.lookup # "none"
                     /\ c.lookup = "enabled" <=> PostsOf(c.opno) # {}
               /\ ~Stored(c) => PostsOf(c.opno) = {} /\ c.pc = "returned")
    /\ [][posts' # posts =>
             \E p \in Procs :
                /\ call[p].pc = "stored"
                /\ Stored(call[p])
                /\ call'[p].pc = "fetching"
                /\ Len(posts') = Len(posts) + 1
                /\ posts'[Len(posts')].opno = call[p].opno
                /\ posts'[Len(posts')].request.body.data = call[p].data]_vars
    /\ [][Began /\ NewRequest.op \in NoteOps /\ NewRequest.user \in Users =>
             LET c == NewRequest
                 id == IF c.op = "updateNote" THEN trim(c.input.ID)
                       ELSE trim(c.input)
             IN /\ posts' = posts
                /\ c.op \in {"updateNote", "deleteNote"}
                      /\ NotesWithID(id) = {} => c.pc = "returned"
                /\ c.pc = "stored" =>
                      CASE c.op = "addNote" ->
                              c.data.v \in note' \ note
                        [] c.op = "updateNote" ->
                              c.data.v \in note' /\ c.data.v.ID = id
                        [] c.op = "deleteNote" ->
                              c.data.v \in note \ note' /\ c.data.v.ID = id
                        [] c.op = "findAllNotes" ->
                              c.data.v = note /\ note' = note]_vars

\* an update has written its row and issued its POST, which carries the row
\* as it is stored, and has not answered its caller yet
C19_Witness ==
    \E p \in Procs :
       /\ call[p].op = "updateNote"
       /\ call[p].pc = "fetching"
       /\ call[p].result = Pending
       /\ \E i \in PostsOf(call[p].opno) :
             /\ posts[i].request.body.data = call[p].data
             /\ posts[i].request.body.data.v \in note

(* C20: updates of one note are not reconciled.  The storage step of a      *)
(* valid updateNote of an existing row leaves the row with the trimmed     *)
(* body of that request whatever body an earlier update gave it, and the   *)
(* body of a row changes in no other step; so the stored body is the body  *)
(* of the update whose storage step came last, and the row written by the  *)
(* request received last of all is in the table.  Every update whose       *)
(* storage step succeeded returns success.                                 *)
C20_LastWriteWins ==
    /\ [](\A c \in Requests :
            c.op = "updateNote" /\ Stored(c) =>
               /\ c.opno = nops => c.data.v \in note
               /\ c.pc = "returned" => c.result = Ok(BoolV(TRUE)))
    /\ [][/\ Received("updateNote")
          /\ Len(trim(NewRequest.input.data)) >= 2
          /\ NotesWithID(trim(NewRequest.input.ID)) # {}
          => \A m \in note' :
                m.ID = trim(NewRequest.input.ID) =>
                   m.data = trim(NewRequest.input.data)]_vars
    /\ [][\A n \in note : \A m \in note' :
            n.ID = m.ID /\ n.data # m.data =>
               /\ Received("updateNote")
               /\ trim(NewRequest.input.ID) = n.ID
               /\ trim(NewRequest.input.data) = m.data]_vars

\* two users updated the same note with different bodies while both
\* requests were in progress: the one whose storage step came second has
\* returned true and its body is the stored one, the other is still
\* waiting for its notifier and its body is gone
C20_Witness ==
    \E p \in Procs :
       /\ call[p].op = "updateNote" /\ Stored(call[p])
       /\ response.op = "updateNote" /\ Stored(response)
       /\ call[p].opno < response.opno
       /\ call[p].user # response.user
       /\ call[p].data.v.ID = response.data.v.ID
       /\ call[p].data.v.data # response.data.v.data
       /\ response.result = Ok(BoolV(TRUE))
       /\ response.data.v \in note
       /\ call[p].data.v \notin note

(* C21: a setWebhookURL with a parsable URL by a user who has a             *)
(* configuration writes the URL into that row and changes nothing else:    *)
(* the row keeps its identifier, the settings and their flags are as they  *)
(* were, so the same events are enabled for the user, and no note changes. *)
(* Every POST is sent, in the step of the lookup, to the URL the caller    *)
(* set last, never to one it had before.                                   *)
C21_SetURLOverwritesOnlyURL ==
    /\ [][/\ Received("setWebhookURL")
          /\ CanParseURL(NewRequest.input)
          /\ ConfigsOf(NewRequest.user) # {}
          => \E u \in Users :
             /\ u = NewRequest.user
             /\ webhookInfo' = {IF c.userID = u
                                THEN [ID |-> c.ID, userID |-> c.userID,
                                      hostURL |-> NewRequest.input]
                                ELSE c : c \in webhookInfo}
             /\ webhookEvent' = webhookEvent
             /\ \A k \in EventType : EnabledFor(u, k)' = EnabledFor(u, k)
             /\ note' = note]_vars
    /\ [][posts' # posts =>
             \E p \in Procs :
                /\ call[p].pc = "stored"
                /\ posts'[Len(posts')].opno = call[p].opno
                /\ posts'[Len(posts')].request.url =
                      URL_toString(lastURL[call[p].user])]_vars

\* after a setWebhookURL changed the URL of a configured user, whose
\* settings are all still there, a note procedure of that user was POSTed
\* to the new URL
C21_Witness ==
    /\ lastURL["u1"] = "https://b.example/hook"
    /\ \A k \in EventType : Cardinality(SettingsOf(1, k)) = 1
    /\ response.op \in NoteOps
    /\ response.user = "u1"
    /\ \E i \in PostsOf(response.opno) :
          posts[i].request.url = "https://b.example/hook"

\* the settings that belong to the configuration of a user
OwnSettings(u) ==
    {e \in webhookEvent : \E c \in ConfigsOf(u) : e.webhookInfoID = c.ID}

\* a step of one of the four configuration procedures
ConfigStep ==
    \/ Began /\ NewRequest.op \in ConfigOps
    \/ \E p \in Procs : call[p].pc = "found" /\ call'[p] # call[p]

(* C22: configuration is kept apart per user.  A POST issued for a note     *)
(* procedure goes to the URL of the caller's own configuration and is due  *)
(* to an enabled setting of that configuration; the configuration row and  *)
(* the settings of a user change only in the upsert of a setWebhookURL or  *)
(* of a setEvent called by that user; and no step of the four              *)
(* configuration procedures issues a POST or changes a note.               *)
C22_ConfigurationPerUser ==
    /\ [][posts' # posts =>
             \E p \in Procs :
                LET c == call[p]
                    sent == posts'[Len(posts')]
                IN /\ c.pc = "stored"
                   /\ sent.opno = c.opno
                   /\ \E own \in ConfigsOf(c.user) :
                         /\ sent.request.url = URL_toString(own.hostURL)
                         /\ \E e \in SettingsOf(own.ID, sent.request.body.type) :
                               e.enabled]_vars
    /\ [][\A u \in Users :
            ConfigsOf(u)' # ConfigsOf(u) \/ OwnSettings(u)' # OwnSettings(u) =>
               \/ Received("setWebhookURL") /\ NewRequest.user = u
               \/ \E p \in Procs : /\ call[p].pc = "found"
                                   /\ call[p].user = u
                                   /\ call'[p] # call[p]]_vars
    /\ [][ConfigStep => posts' = posts /\ note' = note]_vars

\* two users have configurations with different URLs, and a note procedure
\* of one of them was POSTed to that user's URL
C22_Witness ==
    /\ \E a \in ConfigsOf("u1") : \E b \in ConfigsOf("u2") :
          /\ a.hostURL = "https://a.example"
          /\ b.hostURL = "https://b.example/hook"
    /\ response.op \in NoteOps
    /\ response.user = "u1"
    /\ \E i \in PostsOf(response.opno) :
          posts[i].request.url = URL_toString("https://a.example")

\* the identifier a deleteNote addresses
DeleteTarget(c) == trim(c.input)

\* two deleteNote requests of signed-in users that address one identifier,
\* the first received before the second
DeletesOfOneNote(c1, c2) ==
    /\ c1.op = "deleteNote" /\ c1.user \in Users
    /\ c2.op = "deleteNote" /\ c2.user \in Users
    /\ c1.opno < c2.opno
    /\ DeleteTarget(c1) = DeleteTarget(c2)

(* C23: of two deleteNote requests that address the same note, whoever     *)
(* calls them and however their steps interleave, at most one has a        *)
(* storage step that succeeds: when the first removed the row, the second  *)
(* has returned the record-not-found error without reaching the notifier   *)
(* and has no POST.  No two NOTE_DELETE POSTs carry the same note.         *)
C23_OneDeleteSucceeds ==
    /\ \A c1 \in Requests : \A c2 \in Requests :
          DeletesOfOneNote(c1, c2) =>
             /\ ~(Stored(c1) /\ Stored(c2))
             /\ Stored(c1) =>
                   /\ c2.pc = "returned"
                   /\ c2.result = Err(RECORD_NOT_FOUND)
                   /\ c2.lookup = "none"
                   /\ PostsOf(c2.opno) = {}
    /\ \A i \in DOMAIN posts : \A j \in DOMAIN posts :
          /\ posts[i].request.body.type = "NOTE_DELETE"
          /\ posts[j].request.body.type = "NOTE_DELETE"
          /\ posts[i].request.body.data.v.ID = posts[j].request.body.data.v.ID
          => i = j

\* while the deleteNote of one user was waiting for its POST, another user
\* called deleteNote for the same note and got the record-not-found error
C23_Witness ==
    \E p \in Procs :
       /\ DeletesOfOneNote(call[p], response)
       /\ call[p].user # response.user
       /\ call[p].pc = "fetching"
       /\ Cardinality(PostsOf(call[p].opno)) = 1
       /\ response.result = Err(RECORD_NOT_FOUND)
       /\ PostsOf(response.opno) = {}

(* C24: notes belong to no user.  A findAllNotes reads the whole table for  *)
(* every caller, so the list read by the request that follows an addNote   *)
(* contains the note created, whoever the two callers are; an updateNote   *)
(* or deleteNote with valid input succeeds for every caller when the row   *)
(* exists; and the POST of a request goes to the URL of its own caller.    *)
C24_NotesNotScopedToUser ==
    /\ [](\A c1 \in Requests : \A c2 \in Requests :
            /\ c1.op = "addNote" /\ Stored(c1)
            /\ c2.op = "findAllNotes" /\ Stored(c2)
            /\ c2.opno = c1.opno + 1
            => /\ c1.data.v \in c2.data.v
               /\ \A i \in PostsOf(c2.opno) :
                     posts[i].request.body.data = c2.data)
    /\ [][Received("findAllNotes") => NewRequest.data = NotesV(note)]_vars
    /\ [][\/ /\ Received("updateNote")
             /\ Len(trim(NewRequest.input.data)) >= 2
             /\ NotesWithID(trim(NewRequest.input.ID)) # {}
          \/ /\ Received("deleteNote")
             /\ Len(trim(NewRequest.input)) >= 1
             /\ NotesWithID(trim(NewRequest.input)) # {}
          => NewRequest.pc = "stored"]_vars
    /\ [][posts' # posts =>
             \E p \in Procs :
                /\ call[p].pc = "stored"
                /\ posts'[Len(posts')].opno = call[p].opno
                /\ \E own \in ConfigsOf(call[p].user) :
                      posts'[Len(posts')].request.url =
                         URL_toString(own.hostURL)]_vars

\* a note created by a user without a configuration is in the list that
\* the next request, a findAllNotes of another user, has read and POSTed
\* to that user's URL
C24_Witness ==
    \E p \in Procs :
       /\ response.op = "addNote" /\ Stored(response)
       /\ response.user = "u2"
       /\ ConfigsOf("u2") = {}
       /\ call[p].op = "findAllNotes"
       /\ call[p].user = "u1"
       /\ call[p].opno = response.opno + 1
       /\ response.data.v \in call[p].data.v
       /\ \E i \in PostsOf(call[p].opno) :
             /\ posts[i].request.body.data = call[p].data
             /\ posts[i].request.url = "https://a.example/"

\* two POSTs about updates of one note sent to one URL, the first sent
\* before the second
UpdatePostsOfOneNote(i, j) ==
    /\ i < j
    /\ posts[i].request.body.type = "NOTE_UPDATE"
    /\ posts[j].request.body.type = "NOTE_UPDATE"
    /\ posts[i].request.url = posts[j].request.url
    /\ posts[i].request.body.data.v.ID = posts[j].request.body.data.v.ID

(* C25, as claimed: the POSTs of one user about updates of one note are    *)
(* sent in the order in which the storage steps of the updates committed   *)
(* (the storage step of a request is the step that receives it, so that    *)
(* is the order of the request numbers), and hence the last POST carries   *)
(* the body the last storage step left in the row.                         *)
C25_PostsInCommitOrder ==
    \A i \in DOMAIN posts : \A j \in DOMAIN posts :
       UpdatePostsOfOneNote(i, j) => posts[i].opno < posts[j].opno

(* C25, amended: POSTs are sent in the order of the lookups, not of the    *)
(* storage steps.  Each POST is appended in the step of the lookup of a    *)
(* request whose storage step succeeded and carries the data that storage  *)
(* step kept; a POST sent before a request is received belongs to an       *)
(* earlier request, so the order of the storage steps is kept between      *)
(* requests that do not overlap, and only between those.                   *)
C25_PostsInLookupOrder ==
    /\ [][posts' # posts =>
             \E p \in Procs :
                /\ call[p].pc = "stored"
                /\ Stored(call[p])
                /\ posts' = Append(posts,
                      [opno |-> call[p].opno,
                       request |-> posts'[Len(posts')].request])
                /\ posts'[Len(posts')].request.body.data = call[p].data]_vars
    /\ [][Began => \A i \in DOMAIN posts : posts[i].opno < nops']_vars

\* one user updated a note twice while both requests were in progress and
\* the lookup of the second came first: the POST sent last carries the
\* body of the first update, which is no longer the stored one
C25_Witness ==
    \E i \in DOMAIN posts : \E j \in DOMAIN posts :
       /\ UpdatePostsOfOneNote(i, j)
       /\ j = Len(posts)
       /\ posts[i].opno > posts[j].opno
       /\ posts[i].request.body.data.v \in note
       /\ posts[j].request.body.data.v \notin note

============================================================================
